---- MODULE Spec2Model ----
(***************************************************************************)
(* A model of the S3 connector of src/s3/s3.py: the single-object move,    *)
(* the thread-pool batch transfers, the recursive folder operations, the   *)
(* paginated listing, the filtered file listing, and the setters and       *)
(* existence checks.  Strings (bucket names, keys, URIs) are sequences     *)
(* of one-character strings, so that prefixing, slicing and the trailing-  *)
(* separator tests are computed as the code computes them.                 *)
(***************************************************************************)
EXTENDS Integers, Sequences, FiniteSets, TLC

VARIABLES
    store,        \* the object store: [<<bucket, key>> -> content], dynamic domain
    store0,       \* the store when the call under study started (history)
    denied,       \* backend requests that the store rejects: a set of <<op, <<bucket, key>>>>
    self_bucket,  \* S3._bucket, the default bucket
    log,          \* the backend calls issued so far, in order (history)
    mv,           \* the frame of move_file: pc, arguments, return value
    bt,           \* the frame of a batch call: arguments, futures, results, pc
    fd,           \* the frame of copy_folder / delete_folder
    ls,           \* the frame of the list_objects generator
    self_path_prefix, \* S3._path_prefix, the working prefix (cwd)
    mf,           \* the frame of move_folder
    ck,           \* the frame of a setter or of a check_* / is_valid_s3_link call
    lf,           \* the frame of the list_files generator
    buckets       \* the buckets that exist in the store

\* what the actions of one call leave alone: the working prefix, the set of
\* buckets and the frames of the other calls
not_mv == <<bt, fd, ls, self_path_prefix, mf, ck, lf, buckets>>
not_bt == <<mv, fd, ls, self_path_prefix, mf, ck, lf, buckets>>
not_fd == <<mv, bt, ls, self_path_prefix, mf, ck, lf, buckets>>
not_ls == <<mv, bt, fd, self_path_prefix, mf, ck, lf, buckets>>

(***************************************************************************)
(* Strings                                                                 *)
(***************************************************************************)
Empty == <<>>
Slash == <<"/">>
BucketX == <<"x">>
BucketY == <<"y">>
KeyA == <<"a">>
KeyB == <<"b">>

Or_first(x, y) == x

\* python: x or y, on strings
Or(x, y) == IF x = Empty THEN y ELSE x

\* python: s.endswith("/")
endswith_slash(s) == Len(s) > 0 /\ s[Len(s)] = "/"

\* python: s[n:]
slice_from(s, n) == IF n >= Len(s) THEN Empty ELSE SubSeq(s, n + 1, Len(s))

\* python: s.startswith(p)
startswith(s, p) == Len(p) <= Len(s) /\ SubSeq(s, 1, Len(p)) = p

compose_s3_uri(bucket, key) == <<"s", "3", ":", "/", "/">> \o bucket \o Slash \o key

(***************************************************************************)
(* The object store (the boto3 client the connector calls)                 *)
(***************************************************************************)
Loc(bucket, key) == <<bucket, key>>

Put(st, loc, content) ==
    [l \in (DOMAIN st) \cup {loc} |-> IF l = loc THEN content ELSE st[l]]

Remove(st, loc) == [l \in (DOMAIN st) \ {loc} |-> st[l]]

\* a store holding the locations of S, each with its own location as content
StoreOf(S) == [l \in S |-> l]

\* client.copy: needs the source; writes the destination with the source's content
s3_copy(st, src, dst) ==
    IF src \in DOMAIN st /\ <<"copy", src>> \notin denied
    THEN [ok |-> TRUE, store |-> Put(st, dst, st[src])]
    ELSE [ok |-> FALSE, store |-> st]

\* client.head_object: raises unless the key is there and may be read
s3_head_object(st, loc) == loc \in DOMAIN st /\ <<"head", loc>> \notin denied

\* client.delete_object: idempotent, succeeds on a missing key
s3_delete_object(st, loc) ==
    IF <<"delete", loc>> \notin denied
    THEN [ok |-> TRUE, store |-> Remove(st, loc)]
    ELSE [ok |-> FALSE, store |-> st]

Call(op, loc, ok) == [op |-> op, loc |-> loc, ok |-> ok]

(***************************************************************************)
(* key_exists, copy_file, delete_file                                      *)
(***************************************************************************)
key_exists_unchecked(st, key, bucket) == TRUE

\* True iff head_object does not raise
key_exists(st, key, bucket) == s3_head_object(st, Loc(Or(bucket, self_bucket), key))

\* raises FileNotFoundError (ok = FALSE) when the client's copy raises
copy_file(st, copy_from, copy_to, bucket_from, bucket_to) ==
    s3_copy(st, Loc(Or(bucket_from, self_bucket), copy_from),
                Loc(Or(bucket_to, self_bucket), copy_to))

delete_file(st, target, bucket) ==
    s3_delete_object(st, Loc(Or(bucket, self_bucket), target))

(***************************************************************************)
(* move_file                                                               *)
(***************************************************************************)
MoveKeys == {KeyA, KeyB}
MoveBucketArgs == {Empty, BucketY}
MoveLocs == {BucketX, BucketY} \X MoveKeys
BackendOps == {"copy", "head", "delete"}

MvIdle == [pc |-> "idle", move_from |-> Empty, move_to |-> Empty,
           bucket_from |-> Empty, bucket_to |-> Empty, ret |-> "unset"]

MvSrc == Loc(Or(mv.bucket_from, self_bucket), mv.move_from)
MvDst == Loc(Or(mv.bucket_to, self_bucket), mv.move_to)

move_file_call(move_from, move_to, bucket_from, bucket_to) ==
    /\ mv.pc = "idle"
    /\ mv' = [mv EXCEPT !.pc = "copy", !.move_from = move_from, !.move_to = move_to,
                        !.bucket_from = bucket_from, !.bucket_to = bucket_to]
    /\ UNCHANGED <<store, store0, denied, self_bucket, log, not_mv>>

\* self.copy_file(...) inside the try: a failure is re-raised as FileNotFoundError
move_file_copy ==
    /\ mv.pc = "copy"
    /\ LET r == copy_file(store, mv.move_from, mv.move_to, mv.bucket_from, mv.bucket_to)
       IN /\ store' = r.store
          /\ log' = Append(log, Call("copy", MvSrc, r.ok))
          /\ mv' = [mv EXCEPT !.pc = IF r.ok THEN "key_exists" ELSE "raised"]
    /\ UNCHANGED <<store0, denied, self_bucket, not_mv>>

\* if self.key_exists(key=move_to, bucket=bucket_to): ... ; otherwise the function
\* falls off its end and returns None
move_file_key_exists ==
    /\ mv.pc = "key_exists"
    /\ log' = Append(log, Call("head", MvDst, s3_head_object(store, MvDst)))
    /\ IF key_exists(store, mv.move_to, mv.bucket_to)
       THEN mv' = [mv EXCEPT !.pc = "delete"]
       ELSE mv' = [mv EXCEPT !.pc = "returned", !.ret = "None"]
    /\ UNCHANGED <<store, store0, denied, self_bucket, not_mv>>

\* self.delete_file(target=move_from, bucket=bucket_from); return the new URI
move_file_delete ==
    /\ mv.pc = "delete"
    /\ LET r == delete_file(store, mv.move_from, mv.bucket_from)
       IN /\ store' = r.store
          /\ log' = Append(log, Call("delete", MvSrc, r.ok))
          /\ mv' = IF r.ok
                   THEN [mv EXCEPT !.pc = "returned",
                            !.ret = compose_s3_uri(Or(mv.bucket_to, self_bucket), mv.move_to)]
                   ELSE [mv EXCEPT !.pc = "raised"]
    /\ UNCHANGED <<store0, denied, self_bucket, not_mv>>

(***************************************************************************)
(* The batch operations: copy_files, move_files, upload_files,             *)
(* download_to_files, download_to_filelikes.  Each submits one future per  *)
(* task to a ThreadPoolExecutor, then collects them with as_completed.     *)
(* The local file system is the pseudo-bucket Local of the store.          *)
(***************************************************************************)
MaxTasks == 2
CopyMaxWorkers == 5
DefaultMaxWorkers == 3

Local == <<"l">>
PrefixP == <<"p", "/">>
PrefixQ == <<"q", "/">>
Names == {KeyA, KeyB}
BatchOps == {"copy_files", "move_files", "upload_files",
             "download_to_files", "download_to_filelikes"}

Distinct(s) == \A i, j \in DOMAIN s : i # j => s[i] # s[j]

\* the task lists: up to MaxTasks pairs, pairwise distinct
TaskLists ==
    {s \in UNION {[1..n -> Names \X Names] : n \in 0..MaxTasks} : Distinct(s)}

BtIdle == [pc |-> "idle", op |-> "none", files_from_to |-> <<>>,
           from_path_prefix |-> Empty, to_path_prefix |-> Empty,
           max_workers |-> 0, futures |-> <<>>, yielded |-> {},
           results |-> {}, deleted |-> {}]

\* client.upload_file: needs the local file
s3_upload_file(st, filename, loc) ==
    IF Loc(Local, filename) \in DOMAIN st /\ <<"upload", loc>> \notin denied
    THEN [ok |-> TRUE, store |-> Put(st, loc, st[Loc(Local, filename)])]
    ELSE [ok |-> FALSE, store |-> st]

\* client.download_file / download_fileobj: needs the key
s3_download_file(st, loc, filename) ==
    IF loc \in DOMAIN st /\ <<"download", loc>> \notin denied
    THEN [ok |-> TRUE, store |-> Put(st, Loc(Local, filename), st[loc])]
    ELSE [ok |-> FALSE, store |-> st]

upload_file(st, target, local_path, bucket) ==
    s3_upload_file(st, local_path, Loc(Or(bucket, self_bucket), target))

download_to_file(st, s3_target, local_target, bucket) ==
    s3_download_file(st, Loc(Or(bucket, self_bucket), s3_target), local_target)

\* the key a copy task reads and the key it writes
task_copy_from(i) == bt.from_path_prefix \o bt.files_from_to[i][1]
task_copy_to(i)   == bt.to_path_prefix \o bt.files_from_to[i][2]

\* the callable submitted for task i, applied to the store
task_run(st, i) ==
    LET t == bt.files_from_to[i]
    IN CASE bt.op \in {"copy_files", "move_files"} ->
              copy_file(st, task_copy_from(i), task_copy_to(i),
                        Or(Empty, self_bucket), Or(Empty, self_bucket))
         [] bt.op = "upload_files" -> upload_file(st, t[2], t[1], Empty)
         [] OTHER -> download_to_file(st, t[2], t[1], Empty)

running(f) == {i \in DOMAIN f : f[i] = "running"}

worker_may_start_unbounded(f, i, max_workers) == f[i] = "pending"

\* a worker thread takes the oldest queued work item when it is free
worker_may_start(f, i, max_workers) ==
    /\ f[i] = "pending"
    /\ \A j \in 1..(i - 1) : f[j] # "pending"
    /\ Cardinality(running(f)) < max_workers

executor_shutdown_cancelling(f) ==
    [i \in DOMAIN f |-> IF f[i] = "pending" THEN "cancelled" ELSE f[i]]

\* ThreadPoolExecutor.__exit__: shutdown(wait=True), cancel_futures not set, so
\* the queued work items stay queued
executor_shutdown(f) == f

executor_joined_nowait(f) == TRUE

\* shutdown(wait=True) returns when no work item is queued or running
executor_joined(f) == \A i \in DOMAIN f : f[i] \notin {"pending", "running"}

\* the key move_files hands to delete_file for task i: future.id[0]
move_files_delete_target(i) == bt.files_from_to[i][1]

batch_call(op, tasks, fp, tp, mw) ==
    /\ bt.pc = "idle"
    /\ bt' = [bt EXCEPT !.pc = IF tasks = <<>> THEN "join_return" ELSE "submit",
                        !.op = op, !.files_from_to = tasks,
                        !.from_path_prefix = fp, !.to_path_prefix = tp,
                        !.max_workers = mw]
    /\ UNCHANGED <<store, store0, denied, self_bucket, log, not_bt>>

\* future = executor.submit(...); futures.append(future)
executor_submit ==
    /\ bt.pc = "submit"
    /\ LET f == Append(bt.futures, "pending")
       IN bt' = [bt EXCEPT !.futures = f,
                           !.pc = IF Len(f) = Len(bt.files_from_to)
                                  THEN "as_completed" ELSE "submit"]
    /\ UNCHANGED <<store, store0, denied, self_bucket, log, not_bt>>

worker_start(i) ==
    /\ i \in DOMAIN bt.futures
    /\ worker_may_start(bt.futures, i, bt.max_workers)
    /\ bt' = [bt EXCEPT !.futures[i] = "running"]
    /\ UNCHANGED <<store, store0, denied, self_bucket, log, not_bt>>

\* the task's callable returns or raises; the future records which
worker_finish(i) ==
    /\ i \in DOMAIN bt.futures
    /\ bt.futures[i] = "running"
    /\ LET r == task_run(store, i)
       IN /\ store' = r.store
          /\ bt' = [bt EXCEPT !.futures[i] = IF r.ok THEN "ok" ELSE "failed"]
    /\ UNCHANGED <<store0, denied, self_bucket, log, not_bt>>

future_done_any(f, i) == TRUE

\* as_completed yields a future once it has finished or been cancelled
future_done(f, i) == f[i] \in {"ok", "failed", "cancelled"}

\* one round of "for future in as_completed(futures)":
\*   results[future.id] = future.result()      (raises what the task raised)
\*   move_files only: self.delete_file(target=future.id[0], ...)
as_completed_next(i) ==
    /\ bt.pc = "as_completed"
    /\ i \in DOMAIN bt.futures
    /\ i \notin bt.yielded
    /\ future_done(bt.futures, i)
    /\ IF bt.futures[i] # "ok"
       THEN /\ bt' = [bt EXCEPT !.pc = "join_raise", !.yielded = @ \cup {i},
                                !.futures = executor_shutdown(@)]
            /\ store' = store
       ELSE LET y == bt.yielded \cup {i}
                last == y = DOMAIN bt.futures
                d == IF bt.op = "move_files"
                     THEN delete_file(store, move_files_delete_target(i),
                                      Or(Empty, self_bucket))
                     ELSE [ok |-> TRUE, store |-> store]
            IN /\ store' = d.store
               /\ bt' = [bt EXCEPT
                    !.yielded = y,
                    !.results = @ \cup {bt.files_from_to[i]},
                    !.deleted = IF bt.op = "move_files"
                                THEN @ \cup {Loc(self_bucket, move_files_delete_target(i))}
                                ELSE @,
                    !.pc = IF ~d.ok THEN "join_raise"
                           ELSE IF last THEN "join_return" ELSE "as_completed",
                    !.futures = IF ~d.ok \/ last THEN executor_shutdown(@) ELSE @]
    /\ UNCHANGED <<store0, denied, self_bucket, log, not_bt>>

\* leaving the with block: the executor joins its workers, then the call
\* returns results or the exception propagates
executor_join ==
    /\ bt.pc \in {"join_return", "join_raise"}
    /\ executor_joined(bt.futures)
    /\ bt' = [bt EXCEPT !.pc = IF bt.pc = "join_return" THEN "returned" ELSE "raised"]
    /\ UNCHANGED <<store, store0, denied, self_bucket, log, not_bt>>

\* move_files when the futures complete and are collected in the order of
\* the task list: task i is copied, collected and its source deleted before
\* task i + 1 starts; once a result or a delete has raised, the work items
\* still queued run while the executor joins, and nothing more is deleted
RECURSIVE move_files_in_order(_, _, _)
move_files_in_order(st, i, raised) ==
    IF i > Len(bt.files_from_to)
    THEN [store |-> st, pc |-> IF raised THEN "raised" ELSE "returned"]
    ELSE LET c == task_run(st, i)
             d == delete_file(c.store, move_files_delete_target(i),
                              Or(Empty, self_bucket))
         IN IF raised \/ ~c.ok
            THEN move_files_in_order(c.store, i + 1, TRUE)
            ELSE move_files_in_order(d.store, i + 1, ~d.ok)

BatchStores ==
    {StoreOf(UNION {{Loc(BucketX, k), Loc(BucketX, PrefixP \o k), Loc(Local, k)} : k \in S})
        : S \in SUBSET Names}

(***************************************************************************)
(* Listing order and the recursive listing the folder operations use       *)
(***************************************************************************)
\* the code point of a character (the store lists keys in UTF-8 binary order)
ord(c) == CASE c = "/" -> 47 [] c = ":" -> 58
            [] c = "a" -> 97 [] c = "b" -> 98 [] c = "d" -> 100 [] c = "e" -> 101
            [] c = "f" -> 102 [] c = "t" -> 116 [] OTHER -> 120

RECURSIVE key_less(_, _)
key_less(x, y) ==
    IF x = Empty THEN y # Empty
    ELSE IF y = Empty THEN FALSE
    ELSE IF Head(x) # Head(y) THEN ord(Head(x)) < ord(Head(y))
    ELSE key_less(Tail(x), Tail(y))

RECURSIVE sorted_keys(_)
sorted_keys(S) ==
    IF S = {} THEN <<>>
    ELSE LET m == CHOOSE k \in S : \A o \in S \ {k} : key_less(k, o)
         IN <<m>> \o sorted_keys(S \ {m})

keys_with_prefix(st, bucket, prefix) ==
    {l[2] : l \in {m \in DOMAIN st : m[1] = bucket /\ startswith(m[2], prefix)}}

\* list_folder_contents(path, bucket, delimiter=""): no common prefixes are
\* grouped, and list_files drops the keys that end in "/"
list_folder_contents_recursive(st, path, bucket) ==
    sorted_keys({k \in keys_with_prefix(st, Or(bucket, self_bucket), path) :
                    ~endswith_slash(k)})

(***************************************************************************)
(* copy_folder, delete_folder                                              *)
(***************************************************************************)
MaxFiles == 3

FolderF == <<"f", "/">>
FolderFiles == {FolderF \o <<"a">>, FolderF \o <<"b">>,
                FolderF \o <<"d", "/", "a">>, FolderF \o <<"d", "/", "b">>}
OutsideKey == <<"e">>
FolderDests == {<<"t", "/">>, <<"t">>}

FdIdle == [pc |-> "idle", op |-> "none", copy_from |-> Empty, copy_to |-> Empty,
           to_arg |-> Empty, bucket_from |-> Empty, bucket_to |-> Empty,
           listing |-> <<>>, i |-> 0, copied |-> <<>>]

folder_next_continue(ok, i, n) == IF i = n THEN "returned" ELSE "loop"

\* where the for loop goes after entry i of n: an exception leaves the loop
\* and the function
folder_next(ok, i, n) ==
    IF ~ok THEN "raised" ELSE IF i = n THEN "returned" ELSE "loop"

\* the destination key computed for one listed file; the result is assigned
\* to copy_to itself
copy_folder_target(copy_to, file, preamble_length) ==
    IF ~endswith_slash(copy_to)
    THEN copy_to \o Slash \o slice_from(file, preamble_length)
    ELSE copy_to \o slice_from(file, preamble_length)

copy_folder_call(copy_from, copy_to, bucket_from, bucket_to) ==
    /\ fd.pc = "idle"
    /\ LET l == list_folder_contents_recursive(store, copy_from, bucket_from)
       IN fd' = [fd EXCEPT !.pc = folder_next(TRUE, 0, Len(l)), !.op = "copy_folder",
                           !.copy_from = copy_from, !.copy_to = copy_to,
                           !.to_arg = copy_to, !.bucket_from = bucket_from,
                           !.bucket_to = bucket_to, !.listing = l]
    /\ UNCHANGED <<store, store0, denied, self_bucket, log, not_fd>>

\* one round of the loop of copy_folder
copy_folder_step ==
    /\ fd.pc = "loop"
    /\ fd.op = "copy_folder"
    /\ LET file == fd.listing[fd.i + 1]
           to == copy_folder_target(fd.copy_to, file, Len(fd.copy_from))
           r == copy_file(store, file, to, fd.bucket_from, fd.bucket_to)
       IN /\ store' = r.store
          /\ log' = Append(log, Call("copy", Loc(Or(fd.bucket_from, self_bucket), file), r.ok))
          /\ fd' = [fd EXCEPT !.copy_to = to, !.i = @ + 1,
                              !.copied = IF r.ok THEN Append(@, <<file, to>>) ELSE @,
                              !.pc = folder_next(r.ok, fd.i + 1, Len(fd.listing))]
    /\ UNCHANGED <<store0, denied, self_bucket, not_fd>>

delete_folder_call(target, bucket) ==
    /\ fd.pc = "idle"
    /\ LET l == list_folder_contents_recursive(store, target, Or(bucket, self_bucket))
       IN fd' = [fd EXCEPT !.pc = folder_next(TRUE, 0, Len(l)), !.op = "delete_folder",
                           !.copy_from = target, !.bucket_from = bucket, !.listing = l]
    /\ UNCHANGED <<store, store0, denied, self_bucket, log, not_fd>>

\* one round of the loop of delete_folder
delete_folder_step ==
    /\ fd.pc = "loop"
    /\ fd.op = "delete_folder"
    /\ LET file == fd.listing[fd.i + 1]
           l == Loc(Or(fd.bucket_from, self_bucket), file)
           r == s3_delete_object(store, l)
       IN /\ store' = r.store
          /\ log' = Append(log, Call("delete", l, r.ok))
          /\ fd' = [fd EXCEPT !.i = @ + 1,
                              !.copied = IF r.ok THEN Append(@, <<file, file>>) ELSE @,
                              !.pc = folder_next(r.ok, fd.i + 1, Len(fd.listing))]
    /\ UNCHANGED <<store0, denied, self_bucket, not_fd>>

\* a zero-byte object whose key ends in "/": how a console shows an empty folder
FolderMarker == FolderF \o <<"d", "/">>

\* the stores the folder calls run on: up to MaxFiles files under f/, with
\* or without the marker object of f/d/, and one key outside f/
FolderStores ==
    {StoreOf({Loc(BucketX, k) : k \in S \cup M \cup {OutsideKey}}) :
        S \in {T \in SUBSET FolderFiles : Cardinality(T) <= MaxFiles},
        M \in SUBSET {FolderMarker}}

\* at most one request of the run is rejected by the store
FolderDenials ==
    {{}} \cup {{<<op, Loc(BucketX, k)>>} : op \in {"copy", "delete"}, k \in FolderFiles}

(***************************************************************************)
(* move_folder: copy_folder, then delete_folder, then the listing of the   *)
(* destination                                                             *)
(***************************************************************************)
\* destinations that are the source folder itself or lie inside it
MoveDestsInside == {FolderF, FolderF \o <<"t", "/">>}

MfIdle == [pc |-> "idle", move_from |-> Empty, move_to |-> Empty,
           bucket_from |-> Empty, bucket_to |-> Empty, copied |-> <<>>]

not_mf == <<mv, bt, ls, self_path_prefix, ck, lf, buckets>>

move_folder_proceeds_always(pc) == TRUE

\* the statement after self.copy_folder(...) runs only when copy_folder
\* returned: what it raised leaves move_folder too
move_folder_proceeds(pc) == pc = "returned"

\* the call, up to the listing copy_folder starts with
move_folder_call(move_from, move_to, bucket_from, bucket_to) ==
    /\ mf.pc = "idle"
    /\ fd.pc = "idle"
    /\ mf' = [mf EXCEPT !.pc = "copy_folder", !.move_from = move_from,
                        !.move_to = move_to, !.bucket_from = bucket_from,
                        !.bucket_to = bucket_to]
    /\ LET bf == Or(bucket_from, self_bucket)
           l == list_folder_contents_recursive(store, move_from, bf)
       IN fd' = [fd EXCEPT !.pc = folder_next(TRUE, 0, Len(l)), !.op = "copy_folder",
                           !.copy_from = move_from, !.copy_to = move_to,
                           !.to_arg = move_to, !.bucket_from = bf,
                           !.bucket_to = Or(bucket_to, self_bucket), !.listing = l]
    /\ UNCHANGED <<store, store0, denied, self_bucket, log, not_mf>>

\* copy_folder has ended: self.delete_folder(target=move_from, ...), up to
\* the listing it starts with
move_folder_delete_folder ==
    /\ mf.pc = "copy_folder"
    /\ fd.op = "copy_folder"
    /\ fd.pc \in {"returned", "raised"}
    /\ IF move_folder_proceeds(fd.pc)
       THEN LET bf == Or(mf.bucket_from, self_bucket)
                l == list_folder_contents_recursive(store, mf.move_from, bf)
            IN /\ fd' = [FdIdle EXCEPT !.pc = folder_next(TRUE, 0, Len(l)),
                                       !.op = "delete_folder",
                                       !.copy_from = mf.move_from,
                                       !.bucket_from = bf, !.listing = l]
               /\ mf' = [mf EXCEPT !.pc = "delete_folder", !.copied = fd.copied]
       ELSE /\ mf' = [mf EXCEPT !.pc = "raised", !.copied = fd.copied]
            /\ fd' = fd
    /\ UNCHANGED <<store, store0, denied, self_bucket, log, not_mf>>

\* delete_folder has ended: return self.list_folder_contents(...), a
\* generator of which no step has run
move_folder_return ==
    /\ mf.pc = "delete_folder"
    /\ fd.op = "delete_folder"
    /\ fd.pc \in {"returned", "raised"}
    /\ mf' = [mf EXCEPT !.pc = fd.pc]
    /\ UNCHANGED <<store, store0, denied, self_bucket, log, fd, not_mf>>

\* a key of the source folder that no initial store holds
NewKey == FolderF \o <<"n">>

\* another client of the same bucket puts NewKey under move_from while
\* move_folder runs: after copy_folder's listing (taken in move_folder_call)
\* and before delete_folder's listing (taken in move_folder_delete_folder)
other_client_put_object ==
    /\ mf.pc = "copy_folder"
    /\ mf.move_from = FolderF
    /\ LET loc == Loc(Or(mf.bucket_from, self_bucket), NewKey)
       IN /\ loc \notin DOMAIN store
          /\ store' = Put(store, loc, loc)
          /\ log' = Append(log, Call("other_put", loc, TRUE))
    /\ UNCHANGED <<store0, denied, self_bucket, mf, fd, not_mf>>

(***************************************************************************)
(* list_objects: a generator over the pages of list_objects_v2             *)
(***************************************************************************)
MaxKeysArg == 2
DefaultMaxKeys == 1000

ListKeys == FolderFiles \cup {OutsideKey}
ListPrefixes == {Empty, FolderF, FolderF \o <<"d", "/">>}

LsIdle == [pc |-> "idle", bucket |-> Empty, prefix |-> Empty, max_keys |-> 0,
           continuation_token |-> Empty, kwargs_token |-> Empty,
           page |-> <<>>, pos |-> 0, IsTruncated |-> FALSE,
           NextContinuationToken |-> Empty,
           yielded |-> <<>>, requests |-> <<>>, responses |-> <<>>]

first_n(q, n) == IF Len(q) <= n THEN q ELSE SubSeq(q, 1, n)

\* client.list_objects_v2 without a delimiter: the keys with the prefix that
\* follow the token, in key order, at most MaxKeys of them
s3_list_objects_v2(st, bucket, prefix, token, max_keys) ==
    LET rest == sorted_keys({k \in keys_with_prefix(st, bucket, prefix) :
                                token = Empty \/ key_less(token, k)})
        contents == first_n(rest, max_keys)
        truncated == Len(rest) > max_keys
    IN [Contents |-> contents, IsTruncated |-> truncated,
        NextContinuationToken |->
            IF truncated THEN contents[Len(contents)] ELSE Empty]

next_token_dropped(objs) == Empty

\* continuation_token = objs.get("NextContinuationToken")
next_token(objs) == objs.NextContinuationToken

\* calling the generator function runs none of its body
list_objects_call(bucket, prefix, max_keys) ==
    /\ ls.pc = "idle"
    /\ ls' = [ls EXCEPT !.pc = "created", !.bucket = bucket, !.prefix = prefix,
                        !.max_keys = max_keys]
    /\ UNCHANGED <<store, store0, denied, self_bucket, log, not_ls>>

\* the body up to the first yield of a page: on the first pull the bucket
\* test, then kwargs and one list_objects_v2 request
list_objects_request ==
    /\ ls.pc \in {"created", "request"}
    /\ IF ls.pc = "created" /\ Or(ls.bucket, self_bucket) = Empty
       THEN ls' = [ls EXCEPT !.pc = "raised"]
       ELSE LET tok == IF ls.continuation_token # Empty
                       THEN ls.continuation_token ELSE ls.kwargs_token
                objs == s3_list_objects_v2(store, Or(ls.bucket, self_bucket),
                                           ls.prefix, tok, ls.max_keys)
            IN ls' = [ls EXCEPT !.pc = "page", !.kwargs_token = tok,
                                !.page = objs.Contents, !.pos = 0,
                                !.IsTruncated = objs.IsTruncated,
                                !.NextContinuationToken = next_token(objs),
                                !.requests = Append(@, tok),
                                !.responses = Append(@, objs.NextContinuationToken)]
    /\ UNCHANGED <<store, store0, denied, self_bucket, log, not_ls>>

\* for obj in objs.get("Contents", []): yield obj.get("Key")
list_objects_yield ==
    /\ ls.pc = "page"
    /\ ls.pos < Len(ls.page)
    /\ ls' = [ls EXCEPT !.pos = @ + 1, !.yielded = Append(@, ls.page[ls.pos + 1])]
    /\ UNCHANGED <<store, store0, denied, self_bucket, log, not_ls>>

\* if not objs.get("IsTruncated"): break; else take the next token
list_objects_page_end ==
    /\ ls.pc = "page"
    /\ ls.pos = Len(ls.page)
    /\ ls' = IF ~ls.IsTruncated
             THEN [ls EXCEPT !.pc = "done"]
             ELSE [ls EXCEPT !.pc = "request",
                             !.continuation_token = ls.NextContinuationToken]
    /\ UNCHANGED <<store, store0, denied, self_bucket, log, not_ls>>

ListStores == {StoreOf({Loc(BucketX, k) : k \in S}) : S \in SUBSET ListKeys}

(***************************************************************************)
(* The bucket and cwd setters, check_bucket, check_file, check_folder,     *)
(* is_valid_s3_link                                                        *)
(***************************************************************************)
CkIdle == [pc |-> "idle", op |-> "none", arg |-> Empty, bucket |-> Empty,
           error |-> "none", found_in |-> <<>>, valid |-> FALSE, calls |-> <<>>,
           cwd_before |-> Empty, bucket_before |-> Empty,
           key |-> Empty, uri |-> Empty, out_bucket |-> Empty, out_key |-> Empty,
           composed |-> FALSE]

not_ck == <<mv, bt, fd, ls, mf, lf>>

\* the buckets that exist when the connector is made; BucketZ is not one of them
Buckets == {BucketX, BucketY}
BucketZ == <<"z">>

\* client.head_bucket: raises unless the bucket exists and may be accessed
s3_head_bucket(bucket) == bucket \in buckets

contains_as_prefix(s, p) == startswith(s, p)

\* python: p in s, on strings
contains(s, p) == \E n \in 0..(Len(s) - Len(p)) : SubSeq(s, n + 1, n + Len(p)) = p

\* python: x in q, on a list
is_in(x, q) == \E n \in DOMAIN q : q[n] = x

\* python: s.strip(), the white space being " "
RECURSIVE lstrip(_)
lstrip(s) == IF s # Empty /\ Head(s) = " " THEN lstrip(Tail(s)) ELSE s

RECURSIVE rstrip(_)
rstrip(s) == IF s # Empty /\ s[Len(s)] = " " THEN rstrip(SubSeq(s, 1, Len(s) - 1)) ELSE s

strip_left_only(s) == lstrip(s)

strip(s) == rstrip(lstrip(s))

S3Scheme == <<"s", "3", ":", "/", "/">>

last_slash(s) ==
    IF \E n \in DOMAIN s : s[n] = "/"
    THEN CHOOSE n \in DOMAIN s : s[n] = "/" /\ \A m \in (n + 1)..Len(s) : s[m] # "/"
    ELSE 0

\* the position of the first "/" of s, 0 when it has none
first_slash(s) ==
    IF \E n \in DOMAIN s : s[n] = "/"
    THEN CHOOSE n \in DOMAIN s : s[n] = "/" /\ \A m \in 1..(n - 1) : s[m] # "/"
    ELSE 0

\* bucket = s3_link[5:].split("/")[0]; s3key = "/".join(s3_link[5:].split("/")[1:])
decompose_s3_uri(s3_link) ==
    IF s3_link = Empty THEN [ok |-> TRUE, bucket |-> Empty, key |-> Empty]
    ELSE LET l == strip(s3_link)
             rest == slice_from(l, Len(S3Scheme))
             n == first_slash(rest)
         IN IF ~startswith(l, S3Scheme)
            THEN [ok |-> FALSE, bucket |-> Empty, key |-> Empty]
            ELSE [ok |-> TRUE,
                  bucket |-> IF n = 0 THEN rest ELSE SubSeq(rest, 1, n - 1),
                  key |-> IF n = 0 THEN Empty ELSE slice_from(rest, n)]

check_bucket(bucket_name) == s3_head_bucket(Or(bucket_name, self_bucket))

check_file_unguarded(st, path, bucket) ==
    LET loc == Loc(Or(bucket, self_bucket), path)
    IN [ok |-> s3_head_object(st, loc), error |-> "backend",
        calls |-> <<Call("head", loc, s3_head_object(st, loc))>>]

\* check_file -> check_object: head_object on the key, unless it names a folder
check_file(st, path, bucket) ==
    IF ~endswith_slash(path)
    THEN LET loc == Loc(Or(bucket, self_bucket), path)
             ok == s3_head_object(st, loc)
         IN [ok |-> ok, error |-> IF ok THEN "none" ELSE "backend",
             calls |-> <<Call("head", loc, ok)>>]
    ELSE [ok |-> FALSE, error |-> "Not a file", calls |-> <<>>]

\* check_folder: one copy of path for each entry of the recursive listing
\* of the whole bucket that contains path; the listing asks the store twice
\* (list_folders, then list_objects), the first request raising on a bucket
\* that does not exist
check_folder(st, path, bucket) ==
    IF endswith_slash(path)
    THEN LET b == Loc(Or(bucket, self_bucket), Empty)
         IN IF ~s3_head_bucket(b[1])
            THEN [ok |-> FALSE, error |-> "backend", found_in |-> <<>>,
                  calls |-> <<Call("list", b, FALSE)>>]
            ELSE LET Has(prefix) == contains(prefix, path)
                     found == SelectSeq(list_folder_contents_recursive(st, Empty, bucket), Has)
                 IN [ok |-> TRUE, error |-> "none",
                     found_in |-> [n \in DOMAIN found |-> path],
                     calls |-> <<Call("list", b, TRUE), Call("list", b, TRUE)>>]
    ELSE [ok |-> FALSE, error |-> "Not a folder", found_in |-> <<>>, calls |-> <<>>]

\* any exception inside the try makes the result False
is_valid_s3_link(st, s3_link) ==
    LET d == decompose_s3_uri(s3_link)
    IN /\ d.ok
       /\ check_bucket(d.bucket)
       /\ IF endswith_slash(s3_link)
          THEN check_folder(st, d.key, d.bucket).ok
          ELSE check_file(st, d.key, d.bucket).ok

cwd_accepts_any(path, found_in) == TRUE

\* if path in self.check_folder(path).get("found_in")
cwd_accepts(path, found_in) == is_in(path, found_in)

\* a call made now: what the connector's defaults are when it starts
CkCall(op, arg, bucket) ==
    [CkIdle EXCEPT !.op = op, !.arg = arg, !.bucket = bucket,
                   !.cwd_before = self_path_prefix, !.bucket_before = self_bucket]

Outcome(ok) == IF ok THEN "returned" ELSE "raised"

\* self.bucket = bucket_name: the assignment, without a head_bucket call
bucket_setter(bucket_name) ==
    /\ self_bucket' = bucket_name
    /\ ck' = [CkCall("bucket", bucket_name, Empty) EXCEPT !.pc = "returned"]
    /\ UNCHANGED <<store, store0, denied, self_path_prefix, log, buckets, not_ck>>

\* self.cwd = path
cwd_setter(path) ==
    LET r == check_folder(store, path, Empty)
        ok == r.ok /\ cwd_accepts(path, r.found_in)
    IN /\ self_path_prefix' = IF ok THEN path ELSE self_path_prefix
       /\ ck' = [CkCall("cwd", path, Empty) EXCEPT
                    !.pc = Outcome(ok), !.found_in = r.found_in, !.calls = r.calls,
                    !.error = IF ~r.ok THEN r.error
                              ELSE IF ok THEN "none" ELSE "Path not found in current bucket"]
       /\ UNCHANGED <<store, store0, denied, self_bucket, log, buckets, not_ck>>

check_file_call(path, bucket) ==
    LET r == check_file(store, path, bucket)
    IN /\ ck' = [CkCall("check_file", path, bucket) EXCEPT
                    !.pc = Outcome(r.ok), !.error = r.error, !.calls = r.calls]
       /\ UNCHANGED <<store, store0, denied, self_bucket, self_path_prefix, log, buckets, not_ck>>

check_folder_call(path, bucket) ==
    LET r == check_folder(store, path, bucket)
    IN /\ ck' = [CkCall("check_folder", path, bucket) EXCEPT
                    !.pc = Outcome(r.ok), !.error = r.error,
                    !.found_in = r.found_in, !.calls = r.calls]
       /\ UNCHANGED <<store, store0, denied, self_bucket, self_path_prefix, log, buckets, not_ck>>

is_valid_s3_link_call(s3_link) ==
    /\ ck' = [CkCall("is_valid_s3_link", s3_link, Empty) EXCEPT
                 !.pc = "returned", !.valid = is_valid_s3_link(store, s3_link)]
    /\ UNCHANGED <<store, store0, denied, self_bucket, self_path_prefix, log, buckets, not_ck>>

\* the paths, bucket arguments and links the calls are given
CheckPaths == {Empty, <<"f">>, FolderF, FolderF \o <<"a">>, <<"d", "/">>,
               FolderMarker, <<"t", "/">>}
CheckBuckets == {Empty, BucketX, BucketY, BucketZ}

\* the stores the checks run on: bucket x with or without f/a, f/d/a and
\* the marker object f/d/, and one key outside f/; bucket y is empty
CheckStores ==
    {StoreOf({Loc(BucketX, k) : k \in S \cup {OutsideKey}}) :
        S \in SUBSET {FolderF \o <<"a">>, FolderF \o <<"d", "/", "a">>, FolderMarker}}
CheckLinks ==
    {compose_s3_uri(b, k) : b \in CheckBuckets \ {Empty}, k \in CheckPaths}
    \cup {Empty, <<"f">>, compose_s3_uri(BucketX, FolderF \o <<"a">>) \o <<" ">>}

(***************************************************************************)
(* base_s3_uri                                                             *)
(***************************************************************************)
\* the getter: self.compose_s3_uri(bucket=self.bucket, key=self.cwd)
base_s3_uri == compose_s3_uri(self_bucket, self_path_prefix)

\* self.check_folder(path) once self._bucket is new_bucket: with no default
\* bucket the listing request has no bucket to name and raises
check_folder_in(st, path, new_bucket) ==
    IF new_bucket = Empty /\ endswith_slash(path)
    THEN [ok |-> FALSE, error |-> "backend", found_in |-> <<>>,
          calls |-> <<Call("list", Loc(Empty, Empty), FALSE)>>]
    ELSE check_folder(st, path, new_bucket)

\* self.bucket, self.cwd = self.decompose_s3_uri(s3_uri): the right-hand side
\* first, then the two setters from left to right, the bucket setter being a
\* bare assignment and the cwd setter raising after its test
base_s3_uri_setter(s3_uri) ==
    LET d == decompose_s3_uri(s3_uri)
        r == check_folder_in(store, d.key, d.bucket)
        ok == d.ok /\ r.ok /\ cwd_accepts(d.key, r.found_in)
    IN /\ self_bucket' = IF d.ok THEN d.bucket ELSE self_bucket
       /\ self_path_prefix' = IF ok THEN d.key ELSE self_path_prefix
       /\ ck' = [CkCall("base_s3_uri", s3_uri, Empty) EXCEPT
                    !.pc = Outcome(ok), !.out_bucket = d.bucket, !.out_key = d.key,
                    !.error = IF ~d.ok THEN "is not a valid s3 link"
                              ELSE IF ~r.ok THEN r.error
                              ELSE IF ok THEN "none"
                              ELSE "Path not found in current bucket"]
       /\ UNCHANGED <<store, store0, denied, log, buckets, not_ck>>

\* the URIs assigned: folders and a file of the three buckets, the empty
\* string, a string that is no link, and a link with blanks around it
BaseUriKeys == {FolderF, FolderF \o <<"a">>, FolderF \o <<"d", "/">>, <<"t", "/">>}
BaseUriLinks ==
    {compose_s3_uri(b, k) : b \in {BucketX, BucketY, BucketZ}, k \in BaseUriKeys}
    \cup {Empty, <<"f">>, <<" ">> \o compose_s3_uri(BucketX, FolderF) \o <<" ">>,
          compose_s3_uri(Empty, FolderF)}

(***************************************************************************)
(* delete_bucket                                                           *)
(***************************************************************************)
\* client.delete_bucket: the bucket must exist and hold no object
s3_delete_bucket(st, bucket) ==
    bucket \in buckets /\ keys_with_prefix(st, bucket, Empty) = {}

delete_bucket_clears_unnamed_only(bucket) == bucket = Empty

\* if not bucket or bucket == self.bucket
delete_bucket_clears(bucket) == bucket = Empty \/ bucket = self_bucket

\* the client's error leaves the function before the default is touched
delete_bucket_call(bucket) ==
    LET b == Or(bucket, self_bucket)
        ok == s3_delete_bucket(store, b)
    IN /\ buckets' = IF ok THEN buckets \ {b} ELSE buckets
       /\ self_bucket' = IF ok /\ delete_bucket_clears(bucket) THEN Empty ELSE self_bucket
       /\ ck' = [CkCall("delete_bucket", bucket, Empty) EXCEPT
                    !.pc = Outcome(ok), !.error = IF ok THEN "none" ELSE "backend",
                    !.calls = <<Call("delete_bucket", Loc(b, Empty), ok)>>]
       /\ UNCHANGED <<store, store0, denied, self_path_prefix, log, not_ck>>

\* the stores delete_bucket runs on: bucket x empty or not, bucket y empty
BucketStores == {StoreOf({}), StoreOf({Loc(BucketX, OutsideKey)})}

(***************************************************************************)
(* compose_s3_uri and decompose_s3_uri, called on their own and one after  *)
(* the other                                                               *)
(***************************************************************************)
compose_s3_uri_call(bucket, key) ==
    /\ ck' = [CkCall("compose_s3_uri", Empty, bucket) EXCEPT
                 !.pc = "returned", !.key = key, !.uri = compose_s3_uri(bucket, key)]
    /\ UNCHANGED <<store, store0, denied, self_bucket, self_path_prefix, log, buckets, not_ck>>

\* decompose_s3_uri(s3_link), the frame c being the call's
decompose_s3_uri_frame(c, s3_link) ==
    LET d == decompose_s3_uri(s3_link)
    IN [c EXCEPT !.op = "decompose_s3_uri", !.arg = s3_link, !.pc = Outcome(d.ok),
                 !.error = IF d.ok THEN "none" ELSE "is not a valid s3 link",
                 !.out_bucket = d.bucket, !.out_key = d.key]

decompose_s3_uri_call(s3_link) ==
    /\ ck' = decompose_s3_uri_frame(CkCall("none", Empty, Empty), s3_link)
    /\ UNCHANGED <<store, store0, denied, self_bucket, self_path_prefix, log, buckets, not_ck>>

\* decompose_s3_uri(compose_s3_uri(bucket, key)): the second half
decompose_s3_uri_of_composed ==
    /\ ck.op = "compose_s3_uri"
    /\ ck' = decompose_s3_uri_frame([ck EXCEPT !.composed = TRUE], ck.uri)
    /\ UNCHANGED <<store, store0, denied, self_bucket, self_path_prefix, log, buckets, not_ck>>

\* bucket names (none has a "/"), keys and raw links the calls are given
UriBuckets == {Empty, BucketX, BucketY, BucketX \o BucketY}
UriKeys == {Empty, KeyA, Slash, FolderF, FolderF \o KeyA, Slash \o KeyA,
            FolderF \o Slash \o KeyA, FolderF \o <<"d", "/">> \o KeyA,
            <<" ">>, KeyA \o <<" ">>, <<" ">> \o KeyA, KeyA \o <<" ">> \o KeyB}
UriLinks ==
    {Empty, <<" ">>, <<"f">>, <<"f", "/">> \o S3Scheme, <<"s", "3", ":", "/">> \o BucketX,
     S3Scheme, S3Scheme \o BucketX, S3Scheme \o Slash \o KeyA,
     <<" ">> \o compose_s3_uri(BucketX, FolderF \o KeyA) \o <<" ">>,
     <<" ">> \o S3Scheme \o BucketX, S3Scheme \o <<" ">>,
     compose_s3_uri(BucketX, FolderF \o Slash \o KeyA),
     compose_s3_uri(Empty, KeyA \o <<" ">> \o KeyB \o <<" ">>),
     <<"f">> \o <<" ">> \o compose_s3_uri(BucketX, KeyA)}

(***************************************************************************)
(* list_files: a generator filtering what list_objects yields              *)
(***************************************************************************)
LfIdle == [pc |-> "idle", op |-> "none", path |-> Empty, starts_with |-> Empty,
           ends_with |-> Empty, bucket |-> Empty, delimiter |-> Empty,
           objects |-> <<>>, pos |-> 0, yielded |-> <<>>, error |-> "none"]

not_lf == <<mv, bt, fd, ls, mf, ck, buckets>>

\* python: s.endswith(e)
endswith(s, e) == Len(e) <= Len(s) /\ SubSeq(s, Len(s) - Len(e) + 1, Len(s)) = e

\* what list_objects(bucket, prefix, delimiter) yields over all its pages:
\* the keys with the prefix, in key order; with a delimiter, only those in
\* which the delimiter does not occur after the prefix (the others are
\* grouped into common prefixes)
list_objects_all(st, bucket, prefix, delimiter) ==
    sorted_keys({k \in keys_with_prefix(st, bucket, prefix) :
                    delimiter = Empty \/ ~contains(slice_from(k, Len(prefix)), delimiter)})

\* the filter tests of list_files on one listed key:
\*   "TypeError" : filters.get["starts_with"] subscripts a method
\*   "skip"      : continue
\*   "yield"     : yield aws_object
list_files_test(aws_object, path, starts_with, ends_with) ==
    IF endswith_slash(aws_object) THEN "skip"
    ELSE IF starts_with # Empty THEN "TypeError"
    ELSE IF ends_with # Empty /\ ~endswith(aws_object, ends_with) THEN "skip"
    ELSE "yield"

\* calling the generator function runs none of its body
list_files_call(path, starts_with, ends_with, bucket, delimiter) ==
    /\ lf.pc = "idle"
    /\ lf' = [lf EXCEPT !.pc = "created", !.op = "list_files",
                        !.path = path, !.starts_with = starts_with,
                        !.ends_with = ends_with, !.bucket = bucket,
                        !.delimiter = delimiter]
    /\ UNCHANGED <<store, store0, denied, self_bucket, self_path_prefix, log, not_lf>>

\* the first pull: list_objects(bucket=bucket or self.bucket, prefix=path,
\* delimiter=delimiter) starts, raising when there is no bucket
list_files_start ==
    /\ lf.pc = "created"
    /\ lf' = IF Or(lf.bucket, self_bucket) = Empty
             THEN [lf EXCEPT !.pc = "raised", !.error = "Must set, or provide a bucket"]
             ELSE [lf EXCEPT !.pc = "loop",
                             !.objects = list_objects_all(store, Or(lf.bucket, self_bucket),
                                                          lf.path, lf.delimiter)]
    /\ UNCHANGED <<store, store0, denied, self_bucket, self_path_prefix, log, not_lf>>

\* one round of "for aws_object in aws_objects", or its end
list_files_step ==
    /\ lf.pc = "loop"
    /\ IF lf.pos = Len(lf.objects)
       THEN lf' = [lf EXCEPT !.pc = "done"]
       ELSE LET aws_object == lf.objects[lf.pos + 1]
                t == list_files_test(aws_object, lf.path, lf.starts_with, lf.ends_with)
            IN lf' = [lf EXCEPT
                        !.pos = @ + 1,
                        !.pc = IF t = "TypeError" THEN "raised" ELSE "loop",
                        !.error = IF t = "TypeError" THEN t ELSE @,
                        !.yielded = IF t = "yield" THEN Append(@, aws_object) ELSE @]
    /\ UNCHANGED <<store, store0, denied, self_bucket, self_path_prefix, log, not_lf>>

\* the filter terms the calls are given
StartsWithTerms == {Empty, <<"f">>, <<"a">>}
EndsWithTerms == {Empty, <<"a">>}

(***************************************************************************)
(* list_folders: the common prefixes of one list_objects_v2 response       *)
(***************************************************************************)
\* the most entries the store puts in one list_objects_v2 response when the
\* request names no MaxKeys (1000 for S3; small here, so that a listing can
\* need a second page)
S3PageLimit == 2

\* the position at which d first occurs in s, 0 when it does not
first_index(s, d) ==
    IF contains(s, d)
    THEN CHOOSE n \in 1..Len(s) :
            /\ SubSeq(s, n, n + Len(d) - 1) = d
            /\ \A m \in 1..(n - 1) : SubSeq(s, m, m + Len(d) - 1) # d
    ELSE 0

\* the entry a key is listed under: itself, or with a delimiter that occurs
\* after the prefix, the common prefix that ends with that delimiter
listed_entry(k, prefix, delimiter) ==
    LET n == IF delimiter = Empty THEN 0
             ELSE first_index(slice_from(k, Len(prefix)), delimiter)
    IN IF n = 0 THEN k ELSE SubSeq(k, 1, Len(prefix) + n + Len(delimiter) - 1)

\* client.list_objects_v2(Bucket, Prefix, Delimiter), first page: keys and
\* common prefixes count together towards the page limit, in key order
s3_list_objects_v2_grouped(st, bucket, prefix, delimiter) ==
    LET keys == keys_with_prefix(st, bucket, prefix)
        groups == {listed_entry(k, prefix, delimiter) : k \in keys} \ keys
        entries == sorted_keys(keys \cup groups)
        page == first_n(entries, S3PageLimit)
        IsGroup(e) == e \in groups
    IN [CommonPrefixes |-> SelectSeq(page, IsGroup),
        IsTruncated |-> Len(entries) > S3PageLimit]

\* python: s[:-1]
drop_last(s) == IF s = Empty THEN Empty ELSE SubSeq(s, 1, Len(s) - 1)

\* the two filter tests of list_folders: TRUE when the folder is kept
list_folders_keeps(folder, path, starts_with, ends_with) ==
    /\ ~(starts_with # Empty
         /\ (~startswith(folder, starts_with) \/ ~startswith(folder, path \o starts_with)))
    /\ ~(ends_with # Empty
         /\ ~(endswith(drop_last(folder), ends_with) \/ endswith(folder, ends_with)))

\* one request, never a second one: IsTruncated is not looked at
list_folders(st, path, bucket, starts_with, ends_with, delimiter) ==
    LET aws_objects == s3_list_objects_v2_grouped(st, Or(bucket, self_bucket), path, delimiter)
        Keeps(folder) == list_folders_keeps(folder, path, starts_with, ends_with)
    IN SelectSeq(aws_objects.CommonPrefixes, Keeps)

\* a call of list_folders or list_folder_contents, run to its end
LfCall(op, path, bucket, starts_with, ends_with, delimiter) ==
    [LfIdle EXCEPT !.op = op, !.path = path, !.starts_with = starts_with,
                   !.ends_with = ends_with, !.bucket = bucket, !.delimiter = delimiter]

\* the client rejects a request without a bucket name
list_folders_call(path, bucket, starts_with, ends_with, delimiter) ==
    /\ lf.pc = "idle"
    /\ lf' = IF Or(bucket, self_bucket) = Empty
             THEN [LfCall("list_folders", path, bucket, starts_with, ends_with, delimiter)
                     EXCEPT !.pc = "raised", !.error = "backend"]
             ELSE [LfCall("list_folders", path, bucket, starts_with, ends_with, delimiter)
                     EXCEPT !.pc = "done",
                            !.yielded = list_folders(store, path, bucket, starts_with,
                                                     ends_with, delimiter)]
    /\ UNCHANGED <<store, store0, denied, self_bucket, self_path_prefix, log, not_lf>>

(***************************************************************************)
(* list_folder_contents: the folders, then the files                       *)
(***************************************************************************)
\* list_files from the n-th listed object on, run to its end: what it yields
\* and the error that ends it
RECURSIVE list_files_from(_, _, _, _, _)
list_files_from(objects, n, path, starts_with, ends_with) ==
    IF n > Len(objects) THEN [yielded |-> <<>>, error |-> "none"]
    ELSE LET t == list_files_test(objects[n], path, starts_with, ends_with)
             r == list_files_from(objects, n + 1, path, starts_with, ends_with)
         IN IF t = "TypeError" THEN [yielded |-> <<>>, error |-> t]
            ELSE [yielded |-> (IF t = "yield" THEN <<objects[n]>> ELSE <<>>) \o r.yielded,
                  error |-> r.error]

\* list_files(path, filters, bucket, delimiter), run to its end
list_files(st, path, starts_with, ends_with, bucket, delimiter) ==
    list_files_from(list_objects_all(st, Or(bucket, self_bucket), path, delimiter),
                    1, path, starts_with, ends_with)

\* the filter tests list_folder_contents applies to a folder itself
list_folder_contents_keeps(folder, starts_with, ends_with) ==
    /\ ~(starts_with # Empty /\ ~startswith(folder, starts_with))
    /\ ~(ends_with # Empty /\ ~endswith(folder, ends_with))

\* list_folders is called without the filters; the files come from list_files
list_folder_contents(st, path, bucket, starts_with, ends_with, delimiter) ==
    LET folders == list_folders(st, path, Or(bucket, self_bucket), Empty, Empty, delimiter)
        Keeps(folder) == list_folder_contents_keeps(folder, starts_with, ends_with)
        files == list_files(st, path, starts_with, ends_with, bucket, delimiter)
    IN [yielded |-> SelectSeq(folders, Keeps) \o files.yielded, error |-> files.error]

list_folder_contents_call(path, bucket, starts_with, ends_with, delimiter) ==
    /\ lf.pc = "idle"
    /\ lf' = IF Or(bucket, self_bucket) = Empty
             THEN [LfCall("list_folder_contents", path, bucket, starts_with, ends_with,
                          delimiter) EXCEPT !.pc = "raised", !.error = "backend"]
             ELSE LET r == list_folder_contents(store, path, bucket, starts_with,
                                                ends_with, delimiter)
                  IN [LfCall("list_folder_contents", path, bucket, starts_with, ends_with,
                             delimiter)
                        EXCEPT !.pc = IF r.error = "none" THEN "done" ELSE "raised",
                               !.error = r.error, !.yielded = r.yielded]
    /\ UNCHANGED <<store, store0, denied, self_bucket, self_path_prefix, log, not_lf>>

\* the ends_with terms the folder listings are given
FolderEndsWithTerms == EndsWithTerms \cup {<<"d">>}

vars == <<store, store0, denied, buckets, self_bucket, self_path_prefix, log,
          mv, bt, fd, ls, mf, ck, lf>>

InitMoveFile ==
    /\ self_bucket = BucketX
    /\ store0 \in {StoreOf(S) : S \in SUBSET MoveLocs}
    /\ store = store0
    /\ \E ops \in SUBSET BackendOps : denied = ops \X MoveLocs
    /\ log = <<>>
    /\ mv = MvIdle
    /\ bt = BtIdle
    /\ fd = FdIdle
    /\ ls = LsIdle
    /\ self_path_prefix = Empty
    /\ mf = MfIdle
    /\ ck = CkIdle
    /\ lf = LfIdle
    /\ buckets = Buckets

NextMoveFile ==
    \/ \E a \in MoveKeys, b \in MoveKeys, bf \in MoveBucketArgs, bg \in MoveBucketArgs :
          move_file_call(a, b, bf, bg)
    \/ move_file_copy
    \/ move_file_key_exists
    \/ move_file_delete

InitBatch ==
    /\ self_bucket = BucketX
    /\ store0 \in BatchStores
    /\ store = store0
    /\ denied = {}
    /\ log = <<>>
    /\ mv = MvIdle
    /\ bt = BtIdle
    /\ fd = FdIdle
    /\ ls = LsIdle
    /\ self_path_prefix = Empty
    /\ mf = MfIdle
    /\ ck = CkIdle
    /\ lf = LfIdle
    /\ buckets = Buckets

NextBatch ==
    \/ \E op \in {"copy_files", "move_files"}, tasks \in TaskLists,
          fp \in {Empty, PrefixP}, tp \in {Empty, PrefixQ} :
          batch_call(op, tasks, fp, tp, CopyMaxWorkers)
    \/ \E op \in BatchOps \ {"copy_files", "move_files"}, tasks \in TaskLists,
          mw \in {1, DefaultMaxWorkers} :
          batch_call(op, tasks, Empty, Empty, mw)
    \/ executor_submit
    \/ \E i \in 1..MaxTasks : worker_start(i)
    \/ \E i \in 1..MaxTasks : worker_finish(i)
    \/ \E i \in 1..MaxTasks : as_completed_next(i)
    \/ executor_join

InitFolder ==
    /\ self_bucket = BucketX
    /\ store0 \in FolderStores
    /\ store = store0
    /\ denied \in FolderDenials
    /\ log = <<>>
    /\ mv = MvIdle
    /\ bt = BtIdle
    /\ fd = FdIdle
    /\ ls = LsIdle
    /\ self_path_prefix = Empty
    /\ mf = MfIdle
    /\ ck = CkIdle
    /\ lf = LfIdle
    /\ buckets = Buckets

NextFolder ==
    \/ \E to \in FolderDests, bg \in {Empty, BucketY} :
          copy_folder_call(FolderF, to, Empty, bg)
    \/ copy_folder_step
    \/ \E b \in {Empty, BucketX} : delete_folder_call(FolderF, b)
    \/ delete_folder_step

InitList ==
    /\ self_bucket \in {Empty, BucketX}
    /\ store0 \in ListStores
    /\ store = store0
    /\ denied = {}
    /\ log = <<>>
    /\ mv = MvIdle
    /\ bt = BtIdle
    /\ fd = FdIdle
    /\ ls = LsIdle
    /\ self_path_prefix = Empty
    /\ mf = MfIdle
    /\ ck = CkIdle
    /\ lf = LfIdle
    /\ buckets = Buckets

NextList ==
    \/ \E b \in {Empty, BucketX}, prefix \in ListPrefixes,
          max_keys \in (1..MaxKeysArg) \cup {DefaultMaxKeys} :
          list_objects_call(b, prefix, max_keys)
    \/ list_objects_request
    \/ list_objects_yield
    \/ list_objects_page_end

NextMoveFolder ==
    \/ \E to \in FolderDests \cup MoveDestsInside, bf \in {Empty, BucketX},
          bg \in {Empty, BucketY} :
          move_folder_call(FolderF, to, bf, bg)
    \/ copy_folder_step
    \/ move_folder_delete_folder
    \/ delete_folder_step
    \/ move_folder_return

NextMoveFolderShared ==
    \/ NextMoveFolder
    \/ other_client_put_object

InitCheck ==
    /\ self_bucket = BucketX
    /\ store0 \in CheckStores
    /\ store = store0
    /\ denied = {}
    /\ log = <<>>
    /\ mv = MvIdle
    /\ bt = BtIdle
    /\ fd = FdIdle
    /\ ls = LsIdle
    /\ self_path_prefix = Empty
    /\ mf = MfIdle
    /\ ck = CkIdle
    /\ lf = LfIdle
    /\ buckets = Buckets

NextCheck ==
    \/ \E b \in CheckBuckets : bucket_setter(b)
    \/ \E path \in CheckPaths : cwd_setter(path)
    \/ \E path \in CheckPaths, b \in {Empty, BucketX} : check_file_call(path, b)
    \/ \E path \in CheckPaths, b \in {Empty, BucketX} : check_folder_call(path, b)
    \/ \E link \in CheckLinks : is_valid_s3_link_call(link)

NextBaseUri ==
    \E s3_uri \in BaseUriLinks : base_s3_uri_setter(s3_uri)

InitListFiles ==
    /\ self_bucket \in {Empty, BucketX}
    /\ store0 \in FolderStores
    /\ store = store0
    /\ denied = {}
    /\ log = <<>>
    /\ mv = MvIdle
    /\ bt = BtIdle
    /\ fd = FdIdle
    /\ ls = LsIdle
    /\ self_path_prefix = Empty
    /\ mf = MfIdle
    /\ ck = CkIdle
    /\ lf = LfIdle
    /\ buckets = Buckets

NextListFiles ==
    \/ \E path \in {Empty, FolderF}, starts_with \in StartsWithTerms,
          ends_with \in EndsWithTerms, b \in {Empty, BucketX},
          delimiter \in {Empty, Slash} :
          list_files_call(path, starts_with, ends_with, b, delimiter)
    \/ list_files_start
    \/ list_files_step

NextListFolders ==
    \/ \E path \in {Empty, FolderF}, starts_with \in StartsWithTerms,
          ends_with \in FolderEndsWithTerms, b \in {Empty, BucketX},
          delimiter \in {Empty, Slash} :
          list_folders_call(path, b, starts_with, ends_with, delimiter)
    \/ \E path \in {Empty, FolderF}, starts_with \in StartsWithTerms,
          ends_with \in FolderEndsWithTerms, b \in {Empty, BucketX},
          delimiter \in {Empty, Slash} :
          list_folder_contents_call(path, b, starts_with, ends_with, delimiter)

InitUri ==
    /\ self_bucket = Empty
    /\ store0 = StoreOf({})
    /\ store = store0
    /\ denied = {}
    /\ log = <<>>
    /\ mv = MvIdle
    /\ bt = BtIdle
    /\ fd = FdIdle
    /\ ls = LsIdle
    /\ self_path_prefix = Empty
    /\ mf = MfIdle
    /\ ck = CkIdle
    /\ lf = LfIdle
    /\ buckets = Buckets

NextUri ==
    \/ \E b \in UriBuckets, k \in UriKeys : compose_s3_uri_call(b, k)
    \/ \E link \in UriLinks : decompose_s3_uri_call(link)
    \/ decompose_s3_uri_of_composed

InitBucket ==
    /\ self_bucket \in {Empty, BucketX}
    /\ store0 \in BucketStores
    /\ store = store0
    /\ denied = {}
    /\ log = <<>>
    /\ mv = MvIdle
    /\ bt = BtIdle
    /\ fd = FdIdle
    /\ ls = LsIdle
    /\ self_path_prefix = Empty
    /\ mf = MfIdle
    /\ ck = CkIdle
    /\ lf = LfIdle
    /\ buckets = Buckets

NextBucket ==
    \/ \E b \in CheckBuckets : bucket_setter(b)
    \/ \E b \in CheckBuckets : delete_bucket_call(b)

SpecMoveFile == InitMoveFile /\ [][NextMoveFile]_vars

SpecBatch == InitBatch /\ [][NextBatch]_vars

SpecFolder == InitFolder /\ [][NextFolder]_vars

SpecList == InitList /\ [][NextList]_vars

SpecMoveFolder == InitFolder /\ [][NextMoveFolder]_vars
SpecMoveFolderShared == InitFolder /\ [][NextMoveFolderShared]_vars
SpecBaseUri == InitCheck /\ [][NextBaseUri]_vars

SpecCheck == InitCheck /\ [][NextCheck]_vars

SpecListFiles == InitListFiles /\ [][NextListFiles]_vars

SpecListFolders == InitListFiles /\ [][NextListFolders]_vars

SpecUri == InitUri /\ [][NextUri]_vars

SpecBucket == InitBucket /\ [][NextBucket]_vars

(***************************************************************************)
(* Properties of move_file                                                 *)
(***************************************************************************)
CopyReturned(i) == log[i].op = "copy" /\ log[i].ok
HeadConfirmed(i) == log[i].op = "head" /\ log[i].loc = MvDst /\ log[i].ok

\* C2: in move_file the delete of the source is issued (or about to be issued)
\* only after the copy returned successfully and a later head call on the
\* destination succeeded.
C2_DeleteOnlyAfterVerifiedCopy ==
    \A i \in 1..(Len(log) + 1) :
        (IF i <= Len(log) THEN log[i].op = "delete" ELSE mv.pc = "delete")
        => \E j, k \in 1..(i - 1) : j < k /\ CopyReturned(j) /\ HeadConfirmed(k)

\* the source has been deleted by a move that verified its destination
C2_Witness ==
    /\ mv.pc = "returned"
    /\ Len(log) = 3
    /\ log[3] = Call("delete", MvSrc, TRUE)
    /\ MvSrc \in DOMAIN store0
    /\ MvSrc \notin DOMAIN store
    /\ MvDst \in DOMAIN store

\* C3: when the copy returned but the head call on the destination did not
\* confirm it, move_file ends by raising, never by returning, and the source
\* is intact.
C3_UnverifiedMoveRaises ==
    (Len(log) >= 2 /\ CopyReturned(1) /\ log[2].op = "head" /\ ~log[2].ok)
    => /\ mv.pc = "raised"
       /\ MvSrc \in DOMAIN store

\* C4: for all keys and buckets, once move_file has returned the destination
\* exists and the source does not; when the copy step fails move_file raises
\* and the store is as it was.
C4_MovePostcondition ==
    /\ mv.pc = "returned" => MvDst \in DOMAIN store /\ MvSrc \notin DOMAIN store
    /\ (Len(log) >= 1 /\ log[1].op = "copy" /\ ~log[1].ok)
       => mv.pc = "raised" /\ store = store0

(***************************************************************************)
(* Properties of the batch operations                                      *)
(***************************************************************************)
BatchEnded == bt.pc \in {"returned", "raised"}

\* C1: copy_files, upload_files and download_to_files never raise because a
\* task failed: the call returns, with one entry per task.
C1_BatchNeverRaises ==
    (BatchEnded /\ bt.op \in {"copy_files", "upload_files", "download_to_files"})
    => /\ bt.pc = "returned"
       /\ bt.yielded = DOMAIN bt.files_from_to

\* C5: move_files has deleted exactly the prefixed source keys of the tasks
\* whose copy succeeded, and no other key.
C5_MoveFilesDeletesCopiedSources ==
    (BatchEnded /\ bt.op = "move_files")
    => bt.deleted = {Loc(self_bucket, task_copy_from(i)) :
                        i \in {j \in DOMAIN bt.futures : bt.futures[j] = "ok"}}

\* C8: a batch call has ended (returned or raised) only when no submitted task
\* is still pending or running.
C8_BatchFullJoin ==
    BatchEnded => \A i \in DOMAIN bt.futures : bt.futures[i] \notin {"pending", "running"}

\* a call that raised on a failed task, after every task reached its outcome
C8_Witness ==
    /\ bt.pc = "raised"
    /\ Len(bt.futures) = MaxTasks
    /\ \E i \in DOMAIN bt.futures : bt.futures[i] = "failed"
    /\ \A i \in DOMAIN bt.futures : bt.futures[i] \in {"ok", "failed"}

\* C9: when copy_files, move_files, upload_files or download_to_files has
\* ended, every task of the input was submitted and its transfer ran to
\* success or failure: none was skipped or cancelled.
C9_NoSiblingCancelled ==
    (BatchEnded /\ bt.op # "download_to_filelikes")
    => /\ Len(bt.futures) = Len(bt.files_from_to)
       /\ \A i \in DOMAIN bt.futures : bt.futures[i] \in {"ok", "failed"}

\* one task failed and was collected; its sibling, never collected, still ran
C9_Witness ==
    /\ bt.pc = "raised"
    /\ bt.op # "download_to_filelikes"
    /\ \E i, j \in DOMAIN bt.futures :
          /\ bt.futures[i] = "failed" /\ bt.yielded = {i}
          /\ bt.futures[j] = "ok" /\ bt.files_from_to[j] \notin bt.results

\* C13 as stated: once move_files has deleted a source key, no copy task of
\* the batch is pending or running.
C13_DeletesFormSecondPass ==
    (bt.op = "move_files" /\ bt.deleted # {})
    => \A i \in DOMAIN bt.futures : bt.futures[i] \notin {"pending", "running"}

\* C13 as amended: move_files deletes inside the loop that collects the
\* futures: the deletes issued are those of the collected tasks whose own
\* copy succeeded, and a task is collected only when its copy has finished.
C13_DeleteFollowsOwnCopy ==
    bt.op = "move_files"
    => /\ \A i \in bt.yielded : bt.futures[i] \in {"ok", "failed"}
       /\ bt.deleted = {Loc(self_bucket, bt.files_from_to[i][1]) :
                           i \in {j \in bt.yielded : bt.futures[j] = "ok"}}

\* a source has been deleted while the copy of a sibling has not finished
C13_Witness ==
    /\ bt.op = "move_files"
    /\ bt.deleted # {}
    /\ \E j \in DOMAIN bt.futures : bt.futures[j] \in {"pending", "running"}

\* C25: during a batch call no more tasks run at once than the pool has
\* workers: max_workers for upload_files, download_to_files and
\* download_to_filelikes, 5 for copy_files and move_files; a task is pending
\* while the workers are all busy.
C25_RunningWithinWorkerLimit ==
    bt.pc # "idle"
    => /\ Cardinality(running(bt.futures)) <= bt.max_workers
       /\ bt.op \in {"copy_files", "move_files"} => bt.max_workers = 5
       /\ \A i \in DOMAIN bt.futures :
             (bt.futures[i] = "pending" /\ Cardinality(running(bt.futures)) = bt.max_workers)
             => ~ENABLED worker_start(i)

\* the one worker of the pool is busy and a second task waits for it
C25_Witness ==
    /\ bt.max_workers = 1
    /\ Cardinality(running(bt.futures)) = 1
    /\ \E i \in DOMAIN bt.futures : bt.futures[i] = "pending"

(***************************************************************************)
(* Properties of copy_folder and delete_folder                             *)
(***************************************************************************)
FolderEnded == fd.pc \in {"returned", "raised"}

\* `to` normalized to end with the separator
NormalizedTo == IF endswith_slash(fd.to_arg) THEN fd.to_arg ELSE fd.to_arg \o Slash

\* C6: every object copy_folder found at from+r was copied to T+r, T being
\* `to` normalized to end with "/", for any number of files.
C6_CopyFolderKeepsRelativePaths ==
    fd.op = "copy_folder"
    => \A n \in DOMAIN fd.copied :
          fd.copied[n][2] = NormalizedTo \o slice_from(fd.copied[n][1], Len(fd.copy_from))

\* C10 as stated: a folder call that has ended has returned, having processed
\* every listed entry, also when one entry failed.
C10_FolderContinuesAfterFailure ==
    FolderEnded => fd.pc = "returned" /\ fd.i = Len(fd.listing)

\* what the store holds for the n-th entry the call completed
EntryDone(n) ==
    IF fd.op = "copy_folder"
    THEN LET dst == Loc(Or(fd.bucket_to, self_bucket), fd.copied[n][2])
         IN dst \in DOMAIN store
            /\ store[dst] = store0[Loc(Or(fd.bucket_from, self_bucket), fd.copied[n][1])]
    ELSE Loc(Or(fd.bucket_from, self_bucket), fd.copied[n][1]) \notin DOMAIN store

\* C10 as amended: the failure of one entry ends the folder call at that entry
\* by raising (the requests issued are those of the entries up to it, all but
\* the last successful), a call returns only when every entry succeeded, and
\* the entries completed before the failure stay completed.
C10_FolderStopsAtFirstFailure ==
    /\ \A n \in 1..Len(log) : ~log[n].ok => fd.pc = "raised" /\ n = Len(log)
    /\ fd.pc = "raised" => Len(log) = fd.i /\ ~log[fd.i].ok /\ Len(fd.copied) = fd.i - 1
    /\ fd.pc = "returned" => Len(log) = Len(fd.listing) /\ Len(fd.copied) = Len(fd.listing)
    /\ \A n \in DOMAIN fd.copied : EntryDone(n)

\* the second of three entries failed: the first stays copied, the third is
\* never attempted
C10_Witness ==
    /\ fd.pc = "raised"
    /\ fd.op = "copy_folder"
    /\ Len(fd.listing) = 3
    /\ fd.i = 2
    /\ EntryDone(1)

\* the keys of the bucket that have the prefix delete_folder was given
UnderTarget(st) == keys_with_prefix(st, Or(fd.bucket_from, self_bucket), fd.copy_from)

\* C12: when delete_folder(target) has returned, it has issued one delete for
\* each key that had the prefix target, returns one outcome per such key, and
\* no key with the prefix is left; with no such key it issued no delete and
\* returns the empty list.
C12_DeleteFolderRemovesEveryKey ==
    (fd.op = "delete_folder" /\ fd.pc = "returned")
    => /\ {log[n].loc[2] : n \in DOMAIN log} = UnderTarget(store0)
       /\ Len(log) = Cardinality(UnderTarget(store0))
       /\ Len(fd.copied) = Cardinality(UnderTarget(store0))
       /\ UnderTarget(store) = {}

(***************************************************************************)
(* Properties of move_folder                                               *)
(***************************************************************************)
\* the keys move_folder finds under move_from when it is called
MoveFolderSources ==
    list_folder_contents_recursive(store0, mf.move_from, Or(mf.bucket_from, self_bucket))

CopiesOf(q) == {j \in DOMAIN q : q[j].op = "copy"}

\* C11: move_folder issues a delete only after copy_folder has copied every
\* listed object successfully; when a copy failed, move_folder raises without
\* any delete, every object under move_from is as it was, and the objects
\* copied before the failure are at their destinations.
C11_MoveFolderCopiesBeforeDeletes ==
    /\ \A i \in DOMAIN log : log[i].op = "delete" =>
          /\ \A j \in CopiesOf(log) : j < i /\ log[j].ok
          /\ Cardinality(CopiesOf(log)) = Len(MoveFolderSources)
    /\ (\E j \in CopiesOf(log) : ~log[j].ok) =>
          /\ mf.pc \in {"copy_folder", "raised"}
          /\ \A i \in DOMAIN log : log[i].op # "delete"
          /\ \A l \in DOMAIN store0 : l \in DOMAIN store /\ store[l] = store0[l]
          /\ \A n \in DOMAIN fd.copied : EntryDone(n)

\* the second copy failed: move_folder raised, one object is at its
\* destination and the source folder is whole
C11_Witness ==
    /\ mf.pc = "raised"
    /\ fd.op = "copy_folder"
    /\ Len(mf.copied) = 1
    /\ Len(log) = 2
    /\ \A k \in keys_with_prefix(store0, Or(mf.bucket_from, self_bucket), mf.move_from) :
          Loc(Or(mf.bucket_from, self_bucket), k) \in DOMAIN store

(***************************************************************************)
(* Properties of the setters and the checks                                *)
(***************************************************************************)
\* p occurs in k
HasSubstring(k, p) == \E i, j \in 0..Len(k) : i <= j /\ SubSeq(k, i + 1, j) = p

\* the keys of the bucket a check looked in
CheckedKeys(bucket) == keys_with_prefix(store, Or(bucket, self_bucket), Empty)

\* C16: assigning a bucket that does not exist raises and leaves the default
\* bucket as it was; assigning one that exists succeeds and makes it the
\* default.
C16_BucketSetterRejectsMissingBucket ==
    ck.op = "bucket"
    => IF s3_head_bucket(ck.arg)
       THEN ck.pc = "returned" /\ self_bucket = ck.arg
       ELSE ck.pc = "raised" /\ self_bucket = ck.bucket_before

\* C17 as stated: found_in is made of keys of the bucket that contain path,
\* it has every such key, and it is empty iff no key contains path.
C17_FoundInIsTheMatchingKeys ==
    (ck.op = "check_folder" /\ ck.pc = "returned")
    => {ck.found_in[n] : n \in DOMAIN ck.found_in}
         = {k \in CheckedKeys(ck.bucket) : HasSubstring(k, ck.arg)}

\* C17 as amended: found_in holds path itself, once for each key of the
\* bucket that does not end in "/" and contains path; it is empty iff there
\* is no such key.
C17_FoundInIsCopiesOfPath ==
    (ck.op = "check_folder" /\ ck.pc = "returned")
    => /\ Len(ck.found_in) = Cardinality({k \in CheckedKeys(ck.bucket) :
                                ~endswith_slash(k) /\ HasSubstring(k, ck.arg)})
       /\ \A n \in DOMAIN ck.found_in : ck.found_in[n] = ck.arg

\* check_folder("d/") found d/ in f/d/a; the key f/d/ was not counted
C17_Witness ==
    /\ ck.op = "check_folder"
    /\ ck.pc = "returned"
    /\ ck.found_in = << <<"d", "/">> >>
    /\ Cardinality({k \in CheckedKeys(ck.bucket) : HasSubstring(k, ck.arg)}) = 2

\* C18: check_folder of a path that does not end in "/" raises "Not a folder"
\* and check_file of a path that ends in "/" raises "Not a file", neither
\* having called the store; check_file of any other path sends one
\* head_object for exactly that key of the bucket, and raises the store's
\* error exactly when the key is not there.
C18_TrailingSlashConvention ==
    /\ (ck.op = "check_folder" /\ ~endswith_slash(ck.arg))
       => ck.pc = "raised" /\ ck.error = "Not a folder" /\ ck.calls = <<>>
    /\ (ck.op = "check_file" /\ endswith_slash(ck.arg))
       => ck.pc = "raised" /\ ck.error = "Not a file" /\ ck.calls = <<>>
    /\ (ck.op = "check_file" /\ ~endswith_slash(ck.arg))
       => LET loc == Loc(Or(ck.bucket, self_bucket), ck.arg)
          IN /\ ck.calls = <<Call("head", loc, loc \in DOMAIN store)>>
             /\ ck.pc = IF loc \in DOMAIN store THEN "returned" ELSE "raised"
             /\ ck.pc = "raised" => ck.error = "backend"

\* check_file of a folder path was refused without a request
C18_Witness ==
    /\ ck.op = "check_file"
    /\ ck.arg = FolderMarker
    /\ Loc(Or(ck.bucket, self_bucket), ck.arg) \in DOMAIN store
    /\ ck.pc = "raised"
    /\ ck.calls = <<>>

\* the link is s3://bucket/key, white space around it aside
WellFormed(link) == startswith(strip(link), S3Scheme)

\* C19: is_valid_s3_link returns (it never raises), and it returns True iff
\* the link is well formed, its bucket exists and its key exists in that
\* bucket: as an object for a file key, as a folder (some key contains it)
\* for a key ending in "/".
C19_ValidLinkIffBucketAndKeyExist ==
    ck.op = "is_valid_s3_link"
    => /\ ck.pc = "returned"
       /\ LET d == decompose_s3_uri(ck.arg)
          IN ck.valid
             <=> /\ WellFormed(ck.arg)
                 /\ s3_head_bucket(d.bucket)
                 /\ IF endswith_slash(d.key)
                    THEN \E k \in CheckedKeys(d.bucket) : HasSubstring(k, d.key)
                    ELSE Loc(d.bucket, d.key) \in DOMAIN store

\* C15 as stated: after cwd = p has succeeded some key of the default bucket
\* has p as a prefix; after it has raised, cwd is what it was.
C15_CwdIsExistingPrefix ==
    ck.op = "cwd"
    => /\ ck.pc = "returned"
          => /\ self_path_prefix = ck.arg
             /\ \E k \in CheckedKeys(Empty) : startswith(k, ck.arg)
       /\ ck.pc = "raised" => self_path_prefix = ck.cwd_before

\* C15 as amended: after cwd = p has succeeded, p ends in "/" and some key of
\* the default bucket that does not end in "/" contains p (anywhere in the
\* key); in every other case the setter raises; after it has raised, cwd is
\* what it was.
C15_CwdIsContainedInAKey ==
    ck.op = "cwd"
    => /\ ck.pc = "returned"
          <=> /\ endswith_slash(ck.arg)
              /\ \E k \in CheckedKeys(Empty) : ~endswith_slash(k) /\ HasSubstring(k, ck.arg)
       /\ ck.pc = "returned" => self_path_prefix = ck.arg
       /\ ck.pc = "raised" => self_path_prefix = ck.cwd_before

\* the working prefix was f/ and has been set to d/, which occurs in the key
\* f/d/a and starts no key
C15_Witness ==
    /\ ck.op = "cwd"
    /\ ck.pc = "returned"
    /\ ck.cwd_before = FolderF
    /\ self_path_prefix = <<"d", "/">>
    /\ \A k \in CheckedKeys(Empty) : ~startswith(k, ck.arg)

(***************************************************************************)
(* Properties of list_files                                                *)
(***************************************************************************)
\* the filter of list_files as it is described
Accepts(k) ==
    /\ ~endswith_slash(k)
    /\ \/ lf.starts_with = Empty
       \/ startswith(k, lf.starts_with)
       \/ startswith(k, lf.path \o lf.starts_with)
    /\ lf.ends_with = Empty \/ endswith(k, lf.ends_with)

\* C20: with a bucket, list_files never raises, whatever the filter; what it
\* has yielded is, in the order of the listing, the listed keys seen so far
\* that do not end in "/" and pass the filter.
C20_ListFilesAppliesFilters ==
    Or(lf.bucket, self_bucket) # Empty
    => /\ lf.pc # "raised"
       /\ lf.yielded = SelectSeq(SubSeq(lf.objects, 1, lf.pos), Accepts)

\* C27: when move_folder has returned, every object that was under move_from
\* is, with its content, somewhere under move_to in the destination bucket,
\* also when move_to is move_from or lies inside it.
C27_MoveFolderKeepsEveryObject ==
    mf.pc = "returned"
    => \A n \in DOMAIN MoveFolderSources :
          \E l \in DOMAIN store :
             /\ l[1] = Or(mf.bucket_to, self_bucket)
             /\ startswith(l[2], mf.move_to)
             /\ store[l] = store0[Loc(Or(mf.bucket_from, self_bucket), MoveFolderSources[n])]

\* C30: the outcome of move_files does not depend on the order in which the
\* copies complete: whatever the interleaving, a finished move_files has left
\* the keys, and returned or raised, as the run that completes and collects
\* the tasks in the order of the list does.
C30_MoveFilesOrderIndependent ==
    (bt.op = "move_files" /\ bt.pc \in {"returned", "raised"})
    => LET e == move_files_in_order(store0, 1, FALSE)
       IN /\ DOMAIN store = DOMAIN e.store
          /\ bt.pc = e.pc
          /\ bt.pc = "returned" => bt.results = {bt.files_from_to[i] : i \in DOMAIN bt.files_from_to}

\* the other client's put has happened
OtherClientWrote == \E i \in DOMAIN log : log[i].op = "other_put"

\* C28: move_folder never deletes an object it did not copy: a key another
\* client wrote under move_from between copy_folder's listing and
\* delete_folder's listing still exists, with its content, under move_from or
\* under move_to when move_folder returns.
C28_MoveFolderDeletesOnlyWhatItCopied ==
    (mf.pc = "returned" /\ OtherClientWrote)
    => \E l \in DOMAIN store :
          /\ store[l] = Loc(Or(mf.bucket_from, self_bucket), NewKey)
          /\ \/ l[1] = Or(mf.bucket_from, self_bucket) /\ startswith(l[2], mf.move_from)
             \/ l[1] = Or(mf.bucket_to, self_bucket) /\ startswith(l[2], mf.move_to)

\* C29: assigning base_s3_uri is all-or-nothing: when the assignment raises,
\* the default bucket and the working prefix are what they were before it;
\* when it succeeds, both are the parts of the URI assigned and the getter
\* returns that URI.
C29_BaseUriAllOrNothing ==
    ck.op = "base_s3_uri"
    => /\ ck.pc = "raised"
          => self_bucket = ck.bucket_before /\ self_path_prefix = ck.cwd_before
       /\ ck.pc = "returned"
          => /\ self_bucket = ck.out_bucket
             /\ self_path_prefix = ck.out_key
             /\ base_s3_uri = ck.arg

(***************************************************************************)
(* Properties of list_folders and list_folder_contents                     *)
(***************************************************************************)
\* every common prefix under path, in key order
AllCommonPrefixes ==
    LET keys == keys_with_prefix(store, Or(lf.bucket, self_bucket), lf.path)
    IN sorted_keys({listed_entry(k, lf.path, lf.delimiter) : k \in keys} \ keys)

\* the filter of list_folders as it is described
AcceptsFolder(folder) ==
    /\ \/ lf.starts_with = Empty
       \/ startswith(folder, lf.starts_with)
       \/ startswith(folder, lf.path \o lf.starts_with)
    /\ \/ lf.ends_with = Empty
       \/ endswith(folder, lf.ends_with)
       \/ endswith(drop_last(folder), lf.ends_with)

\* C21: list_folders returns, in key order, every common prefix under path
\* that passes the filter, also when the store needs more than one page to
\* report them.
C21_ListFoldersReturnsEveryFolder ==
    (lf.op = "list_folders" /\ lf.pc = "done")
    => lf.yielded = SelectSeq(AllCommonPrefixes, AcceptsFolder)

Items(q) == {q[n] : n \in DOMAIN q}

\* C22: what list_folder_contents yields is what list_folders returns and
\* what list_files yields for the same arguments, taken together, and no
\* file comes before a folder.
C22_ContentsIsFoldersThenFiles ==
    (lf.op = "list_folder_contents" /\ lf.error # "backend")
    => /\ Items(lf.yielded)
            = Items(list_folders(store, lf.path, lf.bucket, lf.starts_with,
                                 lf.ends_with, lf.delimiter))
              \cup Items(list_files(store, lf.path, lf.starts_with, lf.ends_with,
                                    lf.bucket, lf.delimiter).yielded)
       /\ \A i, j \in DOMAIN lf.yielded :
             (i < j /\ endswith_slash(lf.yielded[j])) => endswith_slash(lf.yielded[i])

(***************************************************************************)
(* Properties of compose_s3_uri and decompose_s3_uri                       *)
(***************************************************************************)
IsSpace(c) == c = " "

\* s without the white space at its two ends
Trimmed(s) ==
    IF \A n \in DOMAIN s : IsSpace(s[n]) THEN Empty
    ELSE LET i == CHOOSE n \in DOMAIN s :
                    ~IsSpace(s[n]) /\ \A m \in 1..(n - 1) : IsSpace(s[m])
             j == CHOOSE n \in DOMAIN s :
                    ~IsSpace(s[n]) /\ \A m \in (n + 1)..Len(s) : IsSpace(s[m])
         IN SubSeq(s, i, j)

NoSlash(s) == \A n \in DOMAIN s : s[n] # "/"

\* C23: decompose_s3_uri(compose_s3_uri(bucket, key)) returns (bucket, key)
\* for every bucket name and every key that trimming leaves as it is.
C23_DecomposeInvertsCompose ==
    (ck.op = "decompose_s3_uri" /\ ck.composed /\ Trimmed(ck.key) = ck.key)
    => /\ ck.pc = "returned"
       /\ ck.out_bucket = ck.bucket
       /\ ck.out_key = ck.key

\* a key with empty segments went through compose and decompose unchanged
C23_Witness ==
    /\ ck.op = "decompose_s3_uri"
    /\ ck.composed
    /\ ck.bucket = BucketX \o BucketY
    /\ ck.key = FolderF \o Slash \o KeyA
    /\ ck.out_key = ck.key

\* C24: decompose_s3_uri returns ("", "") for the empty string; any other
\* input is trimmed, and the call raises unless what is left starts with
\* s3://; otherwise the bucket is the text from there to the first "/" (or to
\* the end when there is none) and the key is all that follows that "/".
C24_DecomposeByFirstSlash ==
    (ck.op = "decompose_s3_uri" /\ ~ck.composed)
    => LET t == Trimmed(ck.arg)
           rest == SubSeq(t, 6, Len(t))
       IN IF ck.arg = Empty
          THEN ck.pc = "returned" /\ ck.out_bucket = Empty /\ ck.out_key = Empty
          ELSE IF Len(t) < 5 \/ SubSeq(t, 1, 5) # <<"s", "3", ":", "/", "/">>
          THEN ck.pc = "raised"
          ELSE /\ ck.pc = "returned"
               /\ NoSlash(ck.out_bucket)
               /\ \/ rest = ck.out_bucket \o <<"/">> \o ck.out_key
                  \/ NoSlash(rest) /\ rest = ck.out_bucket /\ ck.out_key = Empty

\* a link with white space around it was cut at its first "/"
C24_Witness ==
    /\ ck.op = "decompose_s3_uri"
    /\ ~ck.composed
    /\ ck.arg = <<" ">> \o compose_s3_uri(BucketX, FolderF \o KeyA) \o <<" ">>
    /\ ck.out_bucket = BucketX
    /\ ck.out_key = FolderF \o KeyA

(***************************************************************************)
(* Properties of delete_bucket                                             *)
(***************************************************************************)
\* the bucket the last delete_bucket call named, or meant by naming none
DeletedBucket == IF ck.arg = <<>> THEN ck.bucket_before ELSE ck.arg

\* C26: after a delete_bucket that succeeded the default bucket is "" when
\* the call named no bucket or named the default, and is what it was when
\* the call named another bucket; after one that failed, the error has been
\* raised and the default is what it was.
C26_DeleteBucketClearsOwnDefault ==
    ck.op = "delete_bucket"
    => /\ ck.pc = "returned"
          => /\ DeletedBucket \notin buckets
             /\ self_bucket = IF DeletedBucket = ck.bucket_before
                              THEN <<>> ELSE ck.bucket_before
       /\ ck.pc = "raised" => self_bucket = ck.bucket_before

\* the default bucket was deleted by its name, and the default is cleared
C26_Witness ==
    /\ ck.op = "delete_bucket"
    /\ ck.pc = "returned"
    /\ ck.arg = BucketY
    /\ ck.bucket_before = BucketY
    /\ self_bucket = <<>>
    /\ BucketY \notin buckets

(***************************************************************************)
(* Properties of list_objects                                              *)
(***************************************************************************)
\* the keys of the listed bucket that have the prefix, in key order
ListExpected ==
    sorted_keys(keys_with_prefix(store0, Or(ls.bucket, self_bucket), ls.prefix))

\* C7: list_objects yields each key with the prefix exactly once, in the
\* order of the store, and is done exactly when all are yielded, whatever the
\* page size; it sends no more requests than there are keys (plus one), the
\* first without a token and each later one with the token the page before
\* it returned.
C7_ListObjectsExactlyOnce ==
    /\ Len(ls.yielded) <= Len(ListExpected)
    /\ ls.yielded = SubSeq(ListExpected, 1, Len(ls.yielded))
    /\ ls.pc = "done" => ls.yielded = ListExpected
    /\ Len(ls.requests) <= Len(ListExpected) + 1
    /\ \A n \in DOMAIN ls.requests :
          ls.requests[n] = IF n = 1 THEN Empty ELSE ls.responses[n - 1]

\* C14 as stated: with no bucket argument and no default bucket, the call of
\* list_objects itself has failed, before any request.
C14_NoBucketFailsAtCall ==
    (ls.pc # "idle" /\ ls.bucket = Empty /\ self_bucket = Empty)
    => ls.pc = "raised" /\ ls.requests = <<>>

\* C14 as amended: with no bucket argument and no default bucket, the call
\* returns a generator that has run no code; its first pull raises the
\* no-bucket error, and no request is ever sent.  The error is raised in no
\* other case.
C14_NoBucketFailsAtFirstPull ==
    /\ (ls.pc # "idle" /\ ls.bucket = Empty /\ self_bucket = Empty)
       => ls.pc \in {"created", "raised"} /\ ls.requests = <<>> /\ ls.yielded = <<>>
    /\ ls.pc = "raised"
       => ls.bucket = Empty /\ self_bucket = Empty /\ ls.requests = <<>>

\* the first pull of a generator made without any bucket has raised
C14_Witness ==
    /\ ls.pc = "raised"
    /\ ls.bucket = Empty
    /\ self_bucket = Empty
    /\ ls.requests = <<>>

\* a listing that needed several pages and is complete
C7_Witness ==
    /\ ls.pc = "done"
    /\ Len(ls.requests) >= 2
    /\ Len(ls.yielded) >= 3
    /\ ls.prefix # Empty

====
